---- MODULE Spec2Model ----
(***************************************************************************)
(* A model of influxdb2_client (src/influxdb2_client/src/lib.rs): the      *)
(* category-aware escaping of strings, the rendering of field values, the  *)
(* DataPointBuilder and its build, the line protocol rendering of a        *)
(* DataPoint, and the streaming of rendered points by Client::write.       *)
(*                                                                         *)
(* A Rust String is a sequence of characters, each character its code      *)
(* point, so that String's Ord (lexicographic by byte, equal to code point *)
(* order on ASCII) is computed and not assumed.  An Option is a sequence   *)
(* of length at most one: <<>> is None and <<x>> is Some(x).  A BTreeMap   *)
(* is the sequence of its entries in iteration order.                      *)
(***************************************************************************)
EXTENDS Integers, Sequences, FiniteSets, TLC

VARIABLES
    state,      \* builder lifecycle: "Building", "Finalized", "Rejected", "Idle"
    builder,    \* Option<DataPointBuilder>: the builder the caller owns
    result,     \* Option<Result<DataPoint, DataPointError>> of the last build
    calls,      \* history of the setter calls made on the builder
    builds,     \* number of build calls made on the builder's state
    line,       \* Option<String>: line_protocol().to_string() of the built point
    points,     \* the DataPoints the caller hands to Client::write
    stream,     \* the items of the input stream not yet polled
    body,       \* the chunks the mapped stream has yielded to Body::wrap_stream
    wstate,     \* "Idle", "Ready", "Streaming", "Sent"
    wire,       \* the bytes of the request body once the stream has ended
    fmtIn,      \* the value a Display impl is applied to
    fmtOut      \* Option<String>: what the Display impl wrote

vars == <<state, builder, result, calls, builds, line,
          points, stream, body, wstate, wire, fmtIn, fmtOut>>

---------------------------------------------------------------------------
\* Characters (code points).

Comma == 44
Equals == 61
Space == 32
Quote == 34
Backslash == 92
Minus == 45
Dot == 46
Digit0 == 48
LetterA == 97
LetterI == 105
LetterT == 116
LetterF == 102

\* Bounds of the model.
MaxLen == 3       \* longest raw string handed to a Display impl on its own
MaxCalls == 3     \* setter calls made on one builder
MaxBuilds == 2    \* build calls made on one builder's accumulated state
MaxPoints == 2    \* DataPoints in the stream handed to Client::write
MaxInt == 42      \* largest magnitude of an i64 rendered on its own

Min(a, b) == IF a < b THEN a ELSE b

RECURSIVE Flatten(_)
\* The concatenation of a sequence of strings.
Flatten(ss) == IF ss = <<>> THEN <<>> ELSE Head(ss) \o Flatten(Tail(ss))

---------------------------------------------------------------------------
\* EscapingSpecification::DELIMITERS of each category.
MeasurementDelimiters == {Comma, Space}
TagKeyDelimiters == {Comma, Equals, Space}
FieldValueStringDelimiters == {Quote}

Categories == {"Measurement", "TagKey", "FieldValueString"}

DELIMITERS(K) ==
    CASE K = "Measurement" -> MeasurementDelimiters
      [] K = "TagKey" -> TagKeyDelimiters
      [] K = "FieldValueString" -> FieldValueStringDelimiters

\* str::match_indices(K::DELIMITERS): the positions of the delimiters, ascending
\* (1-based here).
RECURSIVE MatchIndicesFrom(_, _, _)
MatchIndicesFrom(s, D, i) ==
    IF i > Len(s) THEN <<>>
    ELSE IF s[i] \in D THEN <<i>> \o MatchIndicesFrom(s, D, i + 1)
    ELSE MatchIndicesFrom(s, D, i + 1)

MatchIndices(s, D) == MatchIndicesFrom(s, D, 1)

\* The loop of impl fmt::Display for Escaped<K>: `last` is the number of
\* characters of s already written, `out` what was written so far.
RECURSIVE EscapedLoop(_, _, _, _)
EscapedLoop(s, matches, last, out) ==
    IF matches = <<>>
    THEN out \o SubSeq(s, last + 1, Len(s))
    ELSE LET idx == Head(matches)
         IN  EscapedLoop(s, Tail(matches), idx,
                         out \o SubSeq(s, last + 1, idx - 1) \o <<Backslash, s[idx]>>)

\* A plausible slip: the slice before the delimiter is written but the
\* backslash is not.
EscapedFmtNoBackslash(s, K) == s

\* impl fmt::Display for Escaped<K>.
EscapedFmt(s, K) == EscapedLoop(s, MatchIndices(s, DELIMITERS(K)), 0, <<>>)

\* String's Ord: lexicographic, a proper prefix first.
StringLess(a, b) ==
    \E i \in 1..(Min(Len(a), Len(b)) + 1) :
        /\ \A j \in 1..(i - 1) : a[j] = b[j]
        /\ \/ i > Len(a) /\ i <= Len(b)
           \/ i <= Len(a) /\ i <= Len(b) /\ a[i] < b[i]

\* A plausible slip: the keys compared as they are rendered.
EscapedLessRendered(a, b) == StringLess(EscapedFmt(a, "TagKey"), EscapedFmt(b, "TagKey"))

\* impl Ord for Escaped<K>: self.0.cmp(&other.0), on the raw content.
EscapedLess(a, b) == StringLess(a, b)

---------------------------------------------------------------------------
\* Display of an i64 ("{}"): '-' when negative, then the decimal digits.
RECURSIVE NatDigits(_)
NatDigits(n) ==
    IF n < 10 THEN <<Digit0 + n>> ELSE NatDigits(n \div 10) \o <<Digit0 + (n % 10)>>

I64Fmt(v) == IF v < 0 THEN <<Minus>> \o NatDigits(0 - v) ELSE NatDigits(v)

\* A finite f64 is held by its shortest decimal expansion: sign, whole part and
\* the digits after the point (none when the value is integral).  Display of an
\* f64 ("{}") writes that expansion, with a point only before fraction digits.
F64(neg, whole, frac) == [kind |-> "F64", neg |-> neg, whole |-> whole, frac |-> frac]

F64Fmt(v) ==
    (IF v.neg THEN <<Minus>> ELSE <<>>)
        \o NatDigits(v.whole)
        \o (IF v.frac = <<>> THEN <<>> ELSE <<Dot>> \o [i \in DOMAIN v.frac |-> Digit0 + v.frac[i]])

\* FieldValue variants.
Bool(b) == [kind |-> "Bool", b |-> b]
I64(n) == [kind |-> "I64", i |-> n]
String(s) == [kind |-> "String", s |-> s]

\* A plausible slip: the float written with "{:?}", which keeps ".0" on an
\* integral value.
FieldValueFmtDebugFloat(fv) ==
    CASE fv.kind = "Bool" -> IF fv.b THEN <<LetterT>> ELSE <<LetterF>>
      [] fv.kind = "F64" -> F64Fmt(fv) \o (IF fv.frac = <<>> THEN <<Dot, Digit0>> ELSE <<>>)
      [] fv.kind = "I64" -> I64Fmt(fv.i) \o <<LetterI>>
      [] fv.kind = "String" -> <<Quote>> \o EscapedFmt(fv.s, "FieldValueString") \o <<Quote>>

\* impl fmt::Display for FieldValue.
FieldValueFmt(fv) ==
    CASE fv.kind = "Bool" -> IF fv.b THEN <<LetterT>> ELSE <<LetterF>>
      [] fv.kind = "F64" -> F64Fmt(fv)
      [] fv.kind = "I64" -> I64Fmt(fv.i) \o <<LetterI>>
      [] fv.kind = "String" -> <<Quote>> \o EscapedFmt(fv.s, "FieldValueString") \o <<Quote>>

---------------------------------------------------------------------------
\* BTreeMap<Escaped<K>, V>: the entries in iteration order, which the map keeps
\* ascending by key under impl Ord for Escaped<K>.

BTreeMapKeys(m) == {m[i].k : i \in DOMAIN m}

BTreeMapGet(m, k) == LET i == CHOOSE i \in DOMAIN m : m[i].k = k IN m[i].v

\* A plausible slip: an occupied key keeps its first value.
BTreeMapInsertKeepFirst(m, k, v) ==
    IF k \in BTreeMapKeys(m)
    THEN m
    ELSE LET n == Cardinality({i \in DOMAIN m : EscapedLess(m[i].k, k)})
         IN  SubSeq(m, 1, n) \o <<[k |-> k, v |-> v]>> \o SubSeq(m, n + 1, Len(m))

\* BTreeMap::insert: the value under an equal key is replaced, a new key takes
\* its place in key order.
BTreeMapInsert(m, k, v) ==
    IF k \in BTreeMapKeys(m)
    THEN [i \in DOMAIN m |-> IF m[i].k = k THEN [k |-> m[i].k, v |-> v] ELSE m[i]]
    ELSE LET n == Cardinality({i \in DOMAIN m : EscapedLess(m[i].k, k)})
         IN  SubSeq(m, 1, n) \o <<[k |-> k, v |-> v]>> \o SubSeq(m, n + 1, Len(m))

\* DataPointBuilder::new.
DataPointBuilderNew(measurement) ==
    [measurement |-> measurement, tags |-> <<>>, fields |-> <<>>, timestamp |-> <<>>]

\* DataPointBuilder::tag.
tag(b, name, value) == [b EXCEPT !.tags = BTreeMapInsert(@, name, value)]

\* DataPointBuilder::field.
field(b, name, value) == [b EXCEPT !.fields = BTreeMapInsert(@, name, value)]

\* DataPointBuilder::timestamp.
timestamp(b, value) == [b EXCEPT !.timestamp = <<value>>]

\* A plausible slip: the ensure! looks at the tags.
buildChecksTags(b) ==
    IF b.tags = <<>>
    THEN [kind |-> "Err", data_point_builder |-> b]
    ELSE [kind |-> "Ok", point |-> b]

\* DataPointBuilder::build: Err(AtLeastOneFieldRequired { data_point_builder })
\* when there is no field, else Ok(DataPoint) holding the builder's four fields.
build(b) ==
    IF b.fields = <<>>
    THEN [kind |-> "Err", data_point_builder |-> b]
    ELSE [kind |-> "Ok",
          point |-> [measurement |-> b.measurement, tags |-> b.tags,
                     fields |-> b.fields, timestamp |-> b.timestamp]]

---------------------------------------------------------------------------
\* impl fmt::Display for LineProtocol.

RECURSIVE TagsFmt(_)
\* for (k, v) in &self.0.tags { write!(f, ",{}={}", k, v) }
TagsFmt(tags) ==
    IF tags = <<>> THEN <<>>
    ELSE <<Comma>> \o EscapedFmt(Head(tags).k, "TagKey") \o <<Equals>>
             \o EscapedFmt(Head(tags).v, "TagKey") \o TagsFmt(Tail(tags))

RECURSIVE FieldsFmtFrom(_, _)
\* A plausible slip: every field preceded by a space.
FieldsFmtAllSpaces(fields, i) ==
    IF i > Len(fields) THEN <<>>
    ELSE <<Space>> \o EscapedFmt(fields[i].k, "TagKey") \o <<Equals>>
             \o FieldValueFmt(fields[i].v) \o FieldsFmtFrom(fields, i + 1)

\* for (i, (k, v)) in self.0.fields.iter().enumerate(): the delimiter is a space
\* before the first field (i == 0 there, i = 1 here) and a comma before the rest.
FieldsFmtFrom(fields, i) ==
    IF i > Len(fields) THEN <<>>
    ELSE (IF i = 1 THEN <<Space>> ELSE <<Comma>>)
             \o EscapedFmt(fields[i].k, "TagKey") \o <<Equals>>
             \o FieldValueFmt(fields[i].v) \o FieldsFmtFrom(fields, i + 1)

LineProtocolFmt(p) ==
    EscapedFmt(p.measurement, "Measurement")
        \o TagsFmt(p.tags)
        \o FieldsFmtFrom(p.fields, 1)
        \o (IF p.timestamp = <<>> THEN <<>> ELSE <<Space>> \o I64Fmt(p.timestamp[1]))

---------------------------------------------------------------------------
\* The values the caller draws its arguments from.

Measurements == {<<Backslash>>, <<Comma, LetterA, Equals, LetterA>>}
TagKeys == {<<Comma>>, <<Digit0>>}
TagValues == {<<LetterA>>, <<Space, Backslash>>}
FieldKeys == {<<LetterA>>, <<LetterA, Equals>>}
FieldValues == {I64(-3), F64(FALSE, 42, <<>>), String(<<Quote, Comma>>)}
Timestamps == {-1, 10}

\* What the other two machines hold while one of them runs.
BuilderIdle ==
    /\ state = "Idle" /\ builder = <<>> /\ result = <<>>
    /\ calls = <<>> /\ builds = 0 /\ line = <<>>

WriteIdle ==
    /\ points = <<>> /\ stream = <<>> /\ body = <<>>
    /\ wstate = "Idle" /\ wire = <<>>

FmtIdle == fmtIn = <<>> /\ fmtOut = <<>>

builderVars == <<state, builder, result, calls, builds, line>>
writeVars == <<points, stream, body, wstate, wire>>
fmtVars == <<fmtIn, fmtOut>>

---------------------------------------------------------------------------
\* The builder: DataPoint::builder(m), then tag, field, timestamp and build, each
\* taking the builder by value.

\* DataPoint::builder.
Init ==
    /\ \E m \in Measurements : builder = <<DataPointBuilderNew(m)>>
    /\ state = "Building"
    /\ result = <<>> /\ calls = <<>> /\ builds = 0 /\ line = <<>>
    /\ WriteIdle /\ FmtIdle

Tag(name, value) ==
    /\ state = "Building"
    /\ Len(calls) < MaxCalls
    /\ builder' = <<tag(builder[1], name, value)>>
    /\ calls' = Append(calls, [op |-> "tag", k |-> name, v |-> value])
    /\ UNCHANGED <<state, result, builds, line, writeVars, fmtVars>>

Field(name, value) ==
    /\ state = "Building"
    /\ Len(calls) < MaxCalls
    /\ builder' = <<field(builder[1], name, value)>>
    /\ calls' = Append(calls, [op |-> "field", k |-> name, v |-> value])
    /\ UNCHANGED <<state, result, builds, line, writeVars, fmtVars>>

Timestamp(value) ==
    /\ state = "Building"
    /\ Len(calls) < MaxCalls
    /\ builder' = <<timestamp(builder[1], value)>>
    /\ calls' = Append(calls, [op |-> "timestamp", k |-> <<>>, v |-> value])
    /\ UNCHANGED <<state, result, builds, line, writeVars, fmtVars>>

\* A plausible slip: build(&self) leaves the builder with the caller.
BuildBorrows ==
    /\ state = "Building"
    /\ builds < MaxBuilds
    /\ result' = <<build(builder[1])>>
    /\ state' = IF result'[1].kind = "Ok" THEN "Finalized" ELSE "Rejected"
    /\ builder' = builder
    /\ builds' = builds + 1
    /\ UNCHANGED <<calls, line, writeVars, fmtVars>>

\* build(self): the builder is moved out of the caller's hands, into the
\* DataPoint or into the error.
Build ==
    /\ state = "Building"
    /\ builds < MaxBuilds
    /\ result' = <<build(builder[1])>>
    /\ state' = IF result'[1].kind = "Ok" THEN "Finalized" ELSE "Rejected"
    /\ builder' = <<>>
    /\ builds' = builds + 1
    /\ UNCHANGED <<calls, line, writeVars, fmtVars>>

\* The caller takes the builder back out of
\* DataPointError::AtLeastOneFieldRequired { data_point_builder } and goes on.
TakeBuilderFromError ==
    /\ state = "Rejected"
    /\ builder' = <<result[1].data_point_builder>>
    /\ result' = <<>>
    /\ state' = "Building"
    /\ UNCHANGED <<calls, builds, line, writeVars, fmtVars>>

\* point.line_protocol().to_string() on the built point.
LineProtocol ==
    /\ state = "Finalized"
    /\ line = <<>>
    /\ line' = <<LineProtocolFmt(result[1].point)>>
    /\ UNCHANGED <<state, builder, result, calls, builds, writeVars, fmtVars>>

Next ==
    \/ \E k \in TagKeys, v \in TagValues : Tag(k, v)
    \/ \E k \in FieldKeys, v \in FieldValues : Field(k, v)
    \/ \E ts \in Timestamps : Timestamp(ts)
    \/ Build
    \/ TakeBuilderFromError
    \/ LineProtocol

Spec == Init /\ [][Next]_vars

---------------------------------------------------------------------------
\* Properties of the builder.

\* The accumulated state, wherever build has moved it.
Contents ==
    CASE state = "Building" -> builder[1]
      [] state = "Rejected" -> result[1].data_point_builder
      [] state = "Finalized" -> result[1].point

\* The position of the most recent call of `op` on key k, 0 when there is none.
LastIndex(op, k) ==
    LET S == {i \in DOMAIN calls : calls[i].op = op /\ calls[i].k = k}
    IN  IF S = {} THEN 0 ELSE CHOOSE i \in S : \A j \in S : j <= i

NoFieldCall == \A i \in DOMAIN calls : calls[i].op # "field"

\* C1: build fails, with AtLeastOneFieldRequired, if and only if no field call
\* was made; tags, timestamp and measurement never make it fail, and every
\* DataPoint that exists has at least one field.
C1_BuildFailsIffNoField ==
    state \in {"Finalized", "Rejected"} =>
        /\ (result[1].kind = "Err") <=> NoFieldCall
        /\ (state = "Rejected") <=> (result[1].kind = "Err")
        /\ result[1].kind = "Ok" => result[1].point.fields # <<>>
        /\ result[1].kind = "Err" => result[1].data_point_builder.fields = <<>>

C1_Witness ==
    /\ state = "Rejected"
    /\ \E i \in DOMAIN calls : calls[i].op = "tag"
    /\ \E i \in DOMAIN calls : calls[i].op = "timestamp"

ApplyCall(b, c) ==
    CASE c.op = "tag" -> tag(b, c.k, c.v)
      [] c.op = "field" -> field(b, c.k, c.v)
      [] c.op = "timestamp" -> timestamp(b, c.v)

RECURSIVE Replay(_, _)
Replay(b, cs) == IF cs = <<>> THEN b ELSE Replay(ApplyCall(b, Head(cs)), Tail(cs))

Orders(n) == {p \in [1..n -> 1..n] : \A i, j \in 1..n : i # j => p[i] # p[j]}

\* No two calls set the same key (so at most one timestamp call).
DistinctKeys ==
    \A i, j \in DOMAIN calls :
        i # j => ~(calls[i].op = calls[j].op /\ calls[i].k = calls[j].k)

RECURSIVE RawLess(_, _)
\* a is before b in the order of the raw strings, character by character.
RawLess(a, b) ==
    IF b = <<>> THEN FALSE
    ELSE IF a = <<>> THEN TRUE
    ELSE IF Head(a) # Head(b) THEN Head(a) < Head(b)
    ELSE RawLess(Tail(a), Tail(b))

StrictlyAscending(m) == \A i, j \in DOMAIN m : i < j => RawLess(m[i].k, m[j].k)

\* C2: with pairwise distinct keys, every order of the same setter calls gives
\* the same rendered line, and the tags and the fields the line is rendered
\* from are in strictly ascending order of their raw keys.
C2_SortedDeterminism ==
    (state = "Finalized" /\ line # <<>> /\ DistinctKeys) =>
        LET p == result[1].point
            n == Len(calls)
        IN  /\ \A perm \in Orders(n) :
                   LET b == Replay(DataPointBuilderNew(p.measurement),
                                   [i \in 1..n |-> calls[perm[i]]])
                   IN  LineProtocolFmt(build(b).point) = line[1]
            /\ StrictlyAscending(p.tags)
            /\ StrictlyAscending(p.fields)

C2_Witness ==
    /\ state = "Finalized" /\ line # <<>> /\ DistinctKeys
    /\ \E i, j \in DOMAIN calls :
           /\ i < j /\ calls[i].op = calls[j].op /\ calls[i].op \in {"tag", "field"}
           /\ RawLess(calls[j].k, calls[i].k)

MapHoldsLast(m, op, keys) ==
    /\ BTreeMapKeys(m) \subseteq keys
    /\ \A k \in keys :
           LET n == LastIndex(op, k)
           IN  /\ Cardinality({i \in DOMAIN m : m[i].k = k}) = (IF n = 0 THEN 0 ELSE 1)
               /\ n > 0 => BTreeMapGet(m, k) = calls[n].v

\* C3: the tag map and the field map hold, for each key, exactly one entry with
\* the value of the most recent call on that key, the timestamp is that of the
\* most recent timestamp call (None without one), and repeating a tag or field
\* call leaves the builder unchanged.
C3_LastWriteWins ==
    LET c == Contents
        t == LastIndex("timestamp", <<>>)
    IN  /\ MapHoldsLast(c.tags, "tag", TagKeys)
        /\ MapHoldsLast(c.fields, "field", FieldKeys)
        /\ c.timestamp = (IF t = 0 THEN <<>> ELSE <<calls[t].v>>)
        /\ \A k \in TagKeys, v \in TagValues :
               tag(tag(c, k, v), k, v) = tag(c, k, v)
        /\ \A k \in FieldKeys, v \in FieldValues :
               field(field(c, k, v), k, v) = field(c, k, v)

C3_Witness ==
    /\ state = "Building"
    /\ \E i, j \in DOMAIN calls :
           /\ i < j /\ calls[i].op = "field" /\ calls[j].op = "field"
           /\ calls[i].k = calls[j].k /\ calls[i].v # calls[j].v

RECURSIVE JoinWith(_, _)
\* The strings of ss with sep between each two neighbours.
JoinWith(sep, ss) ==
    IF ss = <<>> THEN <<>>
    ELSE IF Len(ss) = 1 THEN ss[1]
    ELSE ss[1] \o sep \o JoinWith(sep, Tail(ss))

\* The layout the line is to have.
ExpectedLine(p) ==
    EscapedFmt(p.measurement, "Measurement")
        \o Flatten([i \in DOMAIN p.tags |->
               <<Comma>> \o EscapedFmt(p.tags[i].k, "TagKey") \o <<Equals>>
                   \o EscapedFmt(p.tags[i].v, "TagKey")])
        \o <<Space>>
        \o JoinWith(<<Comma>>, [i \in DOMAIN p.fields |->
               EscapedFmt(p.fields[i].k, "TagKey") \o <<Equals>>
                   \o FieldValueFmt(p.fields[i].v)])
        \o (IF p.timestamp = <<>> THEN <<>> ELSE <<Space>> \o I64Fmt(p.timestamp[1]))

\* C4: the line is the escaped measurement, then ',' key '=' value for each
\* tag, then one space and the fields key '=' value joined by ',', then, only
\* with a timestamp, one space and its decimal digits; nothing else.
C4_LineLayout ==
    (state = "Finalized" /\ line # <<>>) => line[1] = ExpectedLine(result[1].point)

C4_Witness ==
    /\ state = "Finalized" /\ line # <<>>
    /\ Len(result[1].point.fields) = 2
    /\ result[1].point.tags # <<>>

\* C10 as amended: Finalized is terminal and is entered only from Building,
\* by a build that takes the builder away; a failed build moves the whole
\* builder into the error, from where the only way on is the caller taking
\* that same builder back.
C10_FinalizedIsTerminal ==
    [][/\ state = "Finalized" => UNCHANGED <<state, builder, result, calls, builds>>
       /\ (state' = "Finalized" /\ state # "Finalized") =>
              (state = "Building" /\ builder' = <<>>)
       /\ (state = "Rejected" /\ state' # "Rejected") =>
              (state' = "Building" /\ builder' = <<result[1].data_point_builder>>)
       /\ (state' = "Rejected" /\ state # "Rejected") =>
              (builder' = <<>> /\ result'[1].data_point_builder = builder[1])]_vars

C10_Witness == state = "Finalized" /\ builds = 2

\* C10 as stated: once build has been called, whether it succeeded or failed,
\* nothing is applied to the builder's accumulated state again.
C10_BothTerminal ==
    [][(state = "Finalized" \/ state = "Rejected") => (state' = state /\ builder' = builder)]_vars

---------------------------------------------------------------------------
\* Client::write: the stream of DataPoints is mapped, item by item, to
\* dp.line_protocol().to_string() as Bytes, and the mapped stream is the body
\* of the one request write_line_protocol sends.

\* The DataPoints of the input stream: each is what build returns for a builder
\* given at most one tag, one field and at most one timestamp.
WritePoints ==
    {LET b0 == DataPointBuilderNew(m)
         b1 == IF withTag THEN tag(b0, <<LetterA>>, <<LetterA>>) ELSE b0
         b2 == field(b1, <<LetterA>>, fv)
         b3 == IF ts = <<>> THEN b2 ELSE timestamp(b2, ts[1])
     IN  build(b3).point :
        m \in Measurements, withTag \in BOOLEAN,
        fv \in {I64(-3), String(<<Quote, Comma>>)}, ts \in {<<>>, <<-1>>}}

InitWrite ==
    /\ points \in UNION {[1..n -> WritePoints] : n \in 0..MaxPoints}
    /\ stream = <<>> /\ body = <<>> /\ wire = <<>>
    /\ wstate = "Ready"
    /\ BuilderIdle /\ FmtIdle

\* client.write(org_id, bucket_id, stream::iter(points)): the body wraps the
\* mapped stream and the request starts.
Write ==
    /\ wstate = "Ready"
    /\ stream' = points
    /\ wstate' = "Streaming"
    /\ UNCHANGED <<points, body, wire, builderVars, fmtVars>>

\* A plausible slip: the points taken from the back of the input.
PollNextFromBack ==
    /\ wstate = "Streaming"
    /\ stream # <<>>
    /\ body' = Append(body, LineProtocolFmt(stream[Len(stream)]))
    /\ stream' = SubSeq(stream, 1, Len(stream) - 1)
    /\ UNCHANGED <<points, wstate, wire, builderVars, fmtVars>>

\* The body polls the mapped stream: the next DataPoint becomes one chunk,
\* dp.line_protocol().to_string() as Bytes.
PollNext ==
    /\ wstate = "Streaming"
    /\ stream # <<>>
    /\ body' = Append(body, LineProtocolFmt(Head(stream)))
    /\ stream' = Tail(stream)
    /\ UNCHANGED <<points, wstate, wire, builderVars, fmtVars>>

\* The stream ends: the request body is the chunks one after the other.
EndOfStream ==
    /\ wstate = "Streaming"
    /\ stream = <<>>
    /\ wire' = Flatten(body)
    /\ wstate' = "Sent"
    /\ UNCHANGED <<points, stream, body, builderVars, fmtVars>>

\* write_line_protocol's outcome: Ok(()), or one of the RequestErrors.
Respond(outcome) ==
    /\ wstate = "Sent"
    /\ wstate' = outcome
    /\ UNCHANGED <<points, stream, body, wire, builderVars, fmtVars>>

NextWrite ==
    \/ Write
    \/ PollNext
    \/ EndOfStream
    \/ \E outcome \in {"Ok", "Http", "ReqwestProcessing"} : Respond(outcome)

SpecWrite == InitWrite /\ [][NextWrite]_vars

BodyComplete == wstate \in {"Sent", "Ok", "Http", "ReqwestProcessing"}

\* C8: the chunks of the body are the line renderings of the points, one per
\* point, in the order of the input, none dropped, repeated or moved; what is
\* left of the stream is the points not yet rendered.
C8_OrderPreserving ==
    (wstate = "Streaming" \/ BodyComplete) =>
        /\ Len(body) + Len(stream) = Len(points)
        /\ \A i \in DOMAIN body : body[i] = LineProtocolFmt(points[i])
        /\ stream = SubSeq(points, Len(body) + 1, Len(points))
        /\ BodyComplete =>
               /\ stream = <<>>
               /\ wire = Flatten([i \in DOMAIN points |-> LineProtocolFmt(points[i])])

C8_Witness ==
    /\ BodyComplete
    /\ Len(points) = 2
    /\ LineProtocolFmt(points[1]) # LineProtocolFmt(points[2])

\* The line feed.
Newline == <<10>>

\* C9: with more than one point, the request body is newline-delimited: the
\* rendered lines of consecutive points are separated by a newline.
C9_NewlineDelimited ==
    (BodyComplete /\ Len(points) > 1) =>
        LET joined == JoinWith(Newline, [i \in DOMAIN points |-> LineProtocolFmt(points[i])])
        IN  wire \in {joined, joined \o Newline}

\* C6: the line determines the point: two points that differ never render to
\* the same line.
C6_LineDeterminesPoint ==
    BodyComplete =>
        \A i, j \in DOMAIN points : body[i] = body[j] => points[i] = points[j]

---------------------------------------------------------------------------
\* The Display impls on their own: Escaped<K> and FieldValue applied to one
\* value.

Alphabet == {LetterA, Comma, Equals, Space, Quote, Backslash}

Strings(n) == UNION {[1..k -> Alphabet] : k \in 0..n}

FmtFieldValues ==
    {Bool(b) : b \in BOOLEAN}
        \cup {I64(n) : n \in (0 - MaxInt)..MaxInt}
        \cup {F64(neg, whole, frac) :
                  neg \in BOOLEAN, whole \in 0..MaxInt, frac \in {<<>>, <<5>>, <<8, 7>>}}
        \cup {String(s) : s \in Strings(MaxLen)}

InitFmt ==
    /\ \/ \E s \in Strings(MaxLen), K \in Categories :
              fmtIn = <<[type |-> "Escaped", s |-> s, K |-> K]>>
       \/ \E fv \in FmtFieldValues :
              fmtIn = <<[type |-> "FieldValue", fv |-> fv]>>
    /\ fmtOut = <<>>
    /\ BuilderIdle /\ WriteIdle

\* Escaped::<K>::from(s).to_string().
DisplayEscaped ==
    /\ fmtIn # <<>> /\ fmtOut = <<>>
    /\ fmtIn[1].type = "Escaped"
    /\ fmtOut' = <<EscapedFmt(fmtIn[1].s, fmtIn[1].K)>>
    /\ UNCHANGED <<fmtIn, builderVars, writeVars>>

\* FieldValue::from(v).to_string().
DisplayFieldValue ==
    /\ fmtIn # <<>> /\ fmtOut = <<>>
    /\ fmtIn[1].type = "FieldValue"
    /\ fmtOut' = <<FieldValueFmt(fmtIn[1].fv)>>
    /\ UNCHANGED <<fmtIn, builderVars, writeVars>>

NextFmt == DisplayEscaped \/ DisplayFieldValue

SpecFmt == InitFmt /\ [][NextFmt]_vars

\* out is raw with one backslash put right before each character of D and
\* every character of raw copied in order.
EscapedAs(raw, out, D) ==
    /\ Len(out) = Len(raw) + Cardinality({j \in DOMAIN raw : raw[j] \in D})
    /\ \A i \in DOMAIN raw :
           LET p == i + Cardinality({j \in 1..i : raw[j] \in D})
           IN  /\ out[p] = raw[i]
               /\ raw[i] \in D => out[p - 1] = Backslash

\* The delimiters as the categories are to have them.
StatedDelimiters(K) ==
    CASE K = "Measurement" -> {Comma, Space}
      [] K = "TagKey" -> {Comma, Equals, Space}
      [] K = "FieldValueString" -> {Quote}

\* C5: the escaped rendering is the raw string with exactly one backslash
\* right before each delimiter of the category (Measurement: ',' and space;
\* TagKey: ',', '=' and space; FieldValueString: '"') and every other
\* character copied unchanged; a string with no delimiter renders to itself.
C5_EscapedRendering ==
    (fmtOut # <<>> /\ fmtIn[1].type = "Escaped") =>
        LET raw == fmtIn[1].s
            D == StatedDelimiters(fmtIn[1].K)
        IN  /\ EscapedAs(raw, fmtOut[1], D)
            /\ (\A i \in DOMAIN raw : raw[i] \notin D) => fmtOut[1] = raw

C5_Witness ==
    /\ fmtOut # <<>> /\ fmtIn[1].type = "Escaped"
    /\ fmtIn[1].K = "Measurement"
    /\ fmtIn[1].s = <<Backslash, Comma, Equals>>
    /\ fmtOut[1] = <<Backslash, Backslash, Comma, Equals>>

RECURSIVE DecValue(_)
\* The number a string of decimal digits stands for.
DecValue(ds) ==
    IF ds = <<>> THEN 0
    ELSE 10 * DecValue(SubSeq(ds, 1, Len(ds) - 1)) + (ds[Len(ds)] - Digit0)

\* ds is the decimal digits of n, with no leading zero.
IsDecimalOf(ds, n) ==
    /\ ds # <<>>
    /\ \A i \in DOMAIN ds : ds[i] \in Digit0..(Digit0 + 9)
    /\ Len(ds) > 1 => ds[1] # Digit0
    /\ DecValue(ds) = n

\* ds is the decimal rendering of the integer v, '-' first when negative.
IsSignedDecimalOf(ds, v) ==
    IF v < 0
    THEN ds # <<>> /\ ds[1] = Minus /\ IsDecimalOf(Tail(ds), 0 - v)
    ELSE IsDecimalOf(ds, v)

\* C7: Bool renders to 't' or 'f', I64(v) to the decimal digits of v and 'i',
\* String(s) to s between quotes with only '"' escaped, and an F64 with an
\* integral value to its digits, with no decimal point and no 'i'.
C7_FieldValueRendering ==
    (fmtOut # <<>> /\ fmtIn[1].type = "FieldValue") =>
        LET fv == fmtIn[1].fv
            out == fmtOut[1]
            n == Len(out)
        IN  /\ fv.kind = "Bool" => out = (IF fv.b THEN <<LetterT>> ELSE <<LetterF>>)
            /\ fv.kind = "I64" =>
                   /\ n >= 2 /\ out[n] = LetterI
                   /\ IsSignedDecimalOf(SubSeq(out, 1, n - 1), fv.i)
            /\ fv.kind = "String" =>
                   /\ n >= 2 /\ out[1] = Quote /\ out[n] = Quote
                   /\ EscapedAs(fv.s, SubSeq(out, 2, n - 1), {Quote})
            /\ (fv.kind = "F64" /\ fv.frac = <<>>) =>
                   IF fv.neg
                   THEN out[1] = Minus /\ IsDecimalOf(Tail(out), fv.whole)
                   ELSE IsDecimalOf(out, fv.whole)

C7_Witness ==
    /\ fmtOut # <<>> /\ fmtIn[1].type = "FieldValue"
    /\ fmtIn[1].fv = F64(FALSE, 42, <<>>)
    /\ fmtOut[1] = <<Digit0 + 4, Digit0 + 2>>

====
